---- MODULE Spec2Model ----
(***************************************************************************)
(* Model of the migration controller of src/lib/connection.js              *)
(* (MigrationController: migrate, rollback, getVersion, _doMigration,      *)
(* _migrateMany, _runMigration, _updateMigrationVersion).                  *)
(*                                                                         *)
(* One invocation of _doMigration is split at its awaits: loading the      *)
(* migrations, reading the current version, every unit action, and the     *)
(* write of the new version are separate steps.                            *)
(***************************************************************************)
EXTENDS Integers, Sequences, FiniteSets, TLC

(* ---------------------------- bounds ----------------------------------- *)

\* Largest number of migration files a module has.
MaxLatest == 3

\* Number of migrate/rollback invocations in one behaviour.
MaxCalls == 3

(* ------------------------- JavaScript values --------------------------- *)
\* A value is a record [t, n]: t is the type tag, n the number (0 when the
\* value is not a number).

Num(n) == [t |-> "num", n |-> n]
\* the number n + 0.5
Half(n) == [t |-> "half", n |-> n]
NULL == [t |-> "null", n |-> 0]
UNDEF == [t |-> "undefined", n |-> 0]
NAN == [t |-> "nan", n |-> 0]
\* the string 'latest'
LATEST == [t |-> "latest", n |-> 0]
\* a string that is neither 'latest' nor numeric
STR == [t |-> "str", n |-> 0]

\* Number(v)
ToNumber(v) ==
    CASE v.t \in {"num", "half"} -> v
      [] v.t = "null" -> Num(0)
      [] OTHER -> NAN

\* Twice the number v, and the number that x is twice of.
Twice(v) == 2 * v.n + (IF v.t = "half" THEN 1 ELSE 0)
HalfOf(x) == IF x % 2 = 0 THEN Num(x \div 2) ELSE Half((x - 1) \div 2)

\* isNaN(v)
IsNaN(v) == ToNumber(v).t = "nan"

\* a < b   (no operand pair of the controller is two strings)
JsLt(a, b) ==
    /\ ~IsNaN(a)
    /\ ~IsNaN(b)
    /\ Twice(ToNumber(a)) < Twice(ToNumber(b))

\* a > b
JsGt(a, b) == JsLt(b, a)

\* a === b
StrictEq(a, b) ==
    /\ a.t = b.t
    /\ a.t # "nan"
    /\ a.n = b.n

\* a + k  and  a - b  on numbers (NaN when an operand is not a number)
JsAdd(a, k) ==
    IF IsNaN(a) THEN NAN ELSE HalfOf(Twice(ToNumber(a)) + 2 * k)
JsSub(a, b) ==
    IF IsNaN(a) \/ IsNaN(b) THEN NAN
    ELSE HalfOf(Twice(ToNumber(a)) - Twice(ToNumber(b)))

\* a || 0
OrZero(a) ==
    IF a.t = "half" \/ (a.t = "num" /\ a.n # 0) THEN a ELSE Num(0)

\* Math.abs(a) <= 1
AbsLeOne(a) == ~IsNaN(a) /\ Twice(a) >= -2 /\ Twice(a) <= 2

\* ToIntegerOrInfinity of a slice argument (truncation towards zero)
ToInteger(a) ==
    IF IsNaN(a) THEN 0
    ELSE IF a.t = "half" /\ a.n < 0 THEN a.n + 1
    ELSE ToNumber(a).n

Min(a, b) == IF a < b THEN a ELSE b
Max(a, b) == IF a > b THEN a ELSE b

\* The relative index of Array.prototype.slice, clamped to 0..len.
RelIndex(k, len) == IF k < 0 THEN Max(len + k, 0) ELSE Min(k, len)

\* migrations.slice(start, end) of the array <<1, ..., len>>: the units at
\* the array positions start .. end-1, that is the units start+1 .. end.
Slice(len, start, end) ==
    LET from == RelIndex(ToInteger(start), len)
        to == IF end.t = "undefined" THEN len
              ELSE RelIndex(ToInteger(end), len)
    IN  IF from < to THEN [i \in 1..(to - from) |-> from + i] ELSE <<>>

\* Array.prototype.reverse
Reverse(s) == [i \in 1..Len(s) |-> s[Len(s) + 1 - i]]

\* migrations[i]: the unit at array position i, 0 for undefined.
At(len, i) == IF i.t = "num" /\ i.n >= 0 /\ i.n < len THEN i.n + 1 ELSE 0

(* ------------------------------ state ---------------------------------- *)

Procs == {1}

\* A module name whose migrations directory cannot be read: _getMigrations
\* returns undefined for it (lines 259-264).
Unreadable == "nosuch"

\* The version arguments a caller may pass.
VersionArgs ==
    {UNDEF, LATEST, STR} \cup {Num(n) : n \in -1..(MaxLatest + 1)}

VARIABLES
    latest,     \* latest[m]: number of migration files of module m
    rows,       \* rows[m]: versions of the records of m in the migrations table
    fwd,        \* fwd[m]: up() actions of m that completed
    bwd,        \* bwd[m]: down() actions of m that completed
    call,       \* call[p]: the invocation of _doMigration of process p
    last,       \* the invocation that ended before the present one
    ncalls      \* invocations started

vars == <<latest, rows, fwd, bwd, call, last, ncalls>>

\* The modules that have a migrations directory under modulesPath.
Modules == DOMAIN latest

\* The module names a caller may pass (the empty string is rejected).
ModuleArgs == Modules \cup {"", Unreadable}

Idle ==
    [pc |-> "idle", moduleName |-> "", toUpgrade |-> TRUE, arg |-> UNDEF,
     currentVersion |-> UNDEF, version |-> UNDEF, plan |-> <<>>,
     ran |-> <<>>, failedAt |-> 0, outcome |-> "", toInsert |-> FALSE,
     write |-> "",
     pre |-> <<>>, preFwd |-> 0, preBwd |-> 0]

NoCall == [toUpgrade |-> TRUE, moduleName |-> "", arg |-> UNDEF, outcome |-> ""]

\* The state after construction, for the modules ms and the callers ps.
InitOf(ms, ps) ==
    /\ latest \in [ms -> 0..MaxLatest]
    /\ rows = [m \in ms |-> <<>>]
    /\ fwd = [m \in ms |-> 0]
    /\ bwd = [m \in ms |-> 0]
    /\ call = [p \in ps |-> Idle]
    /\ last = NoCall
    /\ ncalls = 0

Init == InitOf({"billing"}, Procs)

(* --------------------------- _doMigration ------------------------------ *)

\* Lines 284-285: the version is not a valid version.
InvalidVersion(v) ==
    \/ (~StrictEq(v, LATEST) /\ (~StrictEq(v, UNDEF) /\ IsNaN(v)))
    \/ JsLt(v, Num(0))

\* Lines 297-326: the version to migrate to, or the way the call ends
\* before one is set.  [o |-> outcome ("" to go on), v |-> version]
Resolve(toUpgrade, v, currentVersion, latestVersion) ==
    IF StrictEq(v, UNDEF)
    THEN IF StrictEq(currentVersion, NULL)
         THEN IF toUpgrade
              THEN [o |-> "Return", v |-> v]
              ELSE [o |-> "", v |-> Num(1)]
         ELSE [o |-> "",
               v |-> JsAdd(currentVersion, IF toUpgrade THEN 1 ELSE -1)]
    ELSE IF StrictEq(v, LATEST)
         THEN IF toUpgrade
              THEN [o |-> "", v |-> Num(latestVersion)]
              ELSE [o |-> "InvalidTarget", v |-> v]
         ELSE [o |-> "", v |-> v]

\* Guard without the bound `version > latestVersion` of line 339.
GuardNoLatestBound(toUpgrade, version, currentVersion, latestVersion) ==
    IF toUpgrade /\ JsLt(version, currentVersion)
    THEN "InvalidDirection"
    ELSE IF ~toUpgrade /\ JsGt(version, currentVersion)
    THEN "InvalidDirection"
    ELSE IF toUpgrade /\ StrictEq(currentVersion, Num(latestVersion))
    THEN "AlreadyLatest"
    ELSE IF ~toUpgrade /\ StrictEq(currentVersion, Num(0))
    THEN "NotYetMigrated"
    ELSE IF StrictEq(version, currentVersion)
    THEN "AlreadyAtVersion"
    ELSE ""

\* Guard with the latest-version check ahead of the direction checks.
GuardLatestFirst(toUpgrade, version, currentVersion, latestVersion) ==
    IF \/ JsGt(version, Num(latestVersion))
       \/ (toUpgrade /\ StrictEq(currentVersion, Num(latestVersion)))
    THEN "AlreadyLatest"
    ELSE IF toUpgrade /\ JsLt(version, currentVersion)
    THEN "InvalidDirection"
    ELSE IF ~toUpgrade /\ JsGt(version, currentVersion)
    THEN "InvalidDirection"
    ELSE IF ~toUpgrade /\ StrictEq(currentVersion, Num(0))
    THEN "NotYetMigrated"
    ELSE IF StrictEq(version, currentVersion)
    THEN "AlreadyAtVersion"
    ELSE ""

\* Guard without the check `version === currentVersion` of line 349.
GuardNoSameVersion(toUpgrade, version, currentVersion, latestVersion) ==
    IF toUpgrade /\ JsLt(version, currentVersion)
    THEN "InvalidDirection"
    ELSE IF ~toUpgrade /\ JsGt(version, currentVersion)
    THEN "InvalidDirection"
    ELSE IF \/ JsGt(version, Num(latestVersion))
            \/ (toUpgrade /\ StrictEq(currentVersion, Num(latestVersion)))
    THEN "AlreadyLatest"
    ELSE IF ~toUpgrade /\ StrictEq(currentVersion, Num(0))
    THEN "NotYetMigrated"
    ELSE ""

\* Lines 328-350: the guards on the version, in the order of the code.
\* "" when the call proceeds to the migration.
Guard(toUpgrade, version, currentVersion, latestVersion) ==
    IF toUpgrade /\ JsLt(version, currentVersion)
    THEN "InvalidDirection"
    ELSE IF ~toUpgrade /\ JsGt(version, currentVersion)
    THEN "InvalidDirection"
    ELSE IF \/ JsGt(version, Num(latestVersion))
            \/ (toUpgrade /\ StrictEq(currentVersion, Num(latestVersion)))
    THEN "AlreadyLatest"
    ELSE IF ~toUpgrade /\ StrictEq(currentVersion, Num(0))
    THEN "NotYetMigrated"
    ELSE IF StrictEq(version, currentVersion)
    THEN "AlreadyAtVersion"
    ELSE ""

\* Plan with the forward slice starting one migration late.
PlanSliceFromNext(toUpgrade, version, currentVersion, latestVersion) ==
    IF AbsLeOne(JsSub(version, OrZero(currentVersion)))
    THEN <<At(latestVersion,
              IF toUpgrade THEN JsAdd(version, -1) ELSE ToNumber(version))>>
    ELSE IF toUpgrade
         THEN Slice(latestVersion, JsAdd(currentVersion, 1), version)
         ELSE Reverse(Slice(latestVersion, version, currentVersion))

\* Plan without the reverse() of line 371.
PlanNoReverse(toUpgrade, version, currentVersion, latestVersion) ==
    IF AbsLeOne(JsSub(version, OrZero(currentVersion)))
    THEN <<At(latestVersion,
              IF toUpgrade THEN JsAdd(version, -1) ELSE ToNumber(version))>>
    ELSE IF toUpgrade
         THEN Slice(latestVersion, currentVersion, version)
         ELSE Slice(latestVersion, version, currentVersion)

\* Lines 360-373: the migrations handed to _runMigration, in order, as unit
\* numbers (array position + 1); 0 is an undefined array element.
Plan(toUpgrade, version, currentVersion, latestVersion) ==
    IF AbsLeOne(JsSub(version, OrZero(currentVersion)))
    THEN <<At(latestVersion,
              IF toUpgrade THEN JsAdd(version, -1) ELSE ToNumber(version))>>
    ELSE IF toUpgrade
         THEN Slice(latestVersion, currentVersion, version)
         ELSE Reverse(Slice(latestVersion, version, currentVersion))

\* Lines 365-371: the migrations of the branch for several migrations.
SlicePlan(toUpgrade, version, currentVersion, latestVersion) ==
    IF toUpgrade
    THEN Slice(latestVersion, currentVersion, version)
    ELSE Reverse(Slice(latestVersion, version, currentVersion))

\* The outcomes that reach the caller as a thrown MigrationError.
Thrown == {"InvalidInput", "InvalidTarget", "InvalidDirection"}

Summary(c) ==
    [toUpgrade |-> c.toUpgrade, moduleName |-> c.moduleName,
     arg |-> c.arg, outcome |-> c.outcome]

End(c, o) == [c EXCEPT !.pc = "done", !.outcome = o]

\* DoMigration with a logged return, as in line 290, for an empty module
\* name.
DoMigrationReturnsOnNoName(p, m, up, v) ==
    /\ call[p].pc \in {"idle", "done"}
    /\ ncalls < MaxCalls
    /\ ncalls' = ncalls + 1
    /\ last' = IF call[p].pc = "done" THEN Summary(call[p]) ELSE last
    /\ LET c == [Idle EXCEPT !.moduleName = m, !.toUpgrade = up, !.arg = v,
                             !.version = v,
                             !.pre = IF m \in Modules THEN rows[m] ELSE <<>>,
                             !.preFwd = IF m \in Modules THEN fwd[m] ELSE 0,
                             !.preBwd = IF m \in Modules THEN bwd[m] ELSE 0]
       IN  call' = [call EXCEPT ![p] =
                IF m = "" THEN End(c, "LoadFailure")
                ELSE IF InvalidVersion(v) THEN End(c, "InvalidInput")
                ELSE IF m \notin Modules THEN End(c, "LoadFailure")
                ELSE [c EXCEPT !.pc = "getVersion"]]
    /\ UNCHANGED <<latest, rows, fwd, bwd>>

\* migrate(moduleName, version) / rollback(moduleName, version): lines
\* 276-292, up to the await of this.getVersion.  _getMigrations returns
\* the migrations of the modules in Modules, and undefined when reading
\* the directory throws.
DoMigration(p, m, up, v) ==
    /\ call[p].pc \in {"idle", "done"}
    /\ ncalls < MaxCalls
    /\ ncalls' = ncalls + 1
    /\ last' = IF call[p].pc = "done" THEN Summary(call[p]) ELSE last
    /\ LET c == [Idle EXCEPT !.moduleName = m, !.toUpgrade = up, !.arg = v,
                             !.version = v,
                             !.pre = IF m \in Modules THEN rows[m] ELSE <<>>,
                             !.preFwd = IF m \in Modules THEN fwd[m] ELSE 0,
                             !.preBwd = IF m \in Modules THEN bwd[m] ELSE 0]
       IN  call' = [call EXCEPT ![p] =
                IF m = "" THEN End(c, "InvalidInput")
                ELSE IF InvalidVersion(v) THEN End(c, "InvalidInput")
                ELSE IF m \notin Modules THEN End(c, "LoadFailure")
                ELSE [c EXCEPT !.pc = "getVersion"]]
    /\ UNCHANGED <<latest, rows, fwd, bwd>>

Migrate(p) ==
    \E m \in ModuleArgs, v \in VersionArgs :
        DoMigration(p, m, TRUE, v)

Rollback(p) ==
    \E m \in ModuleArgs, v \in VersionArgs :
        DoMigration(p, m, FALSE, v)

\* getVersion(moduleName), lines 199-216: the version of the first record
\* of the module, null when there is none.  The query has no ORDER BY: with
\* several records any of them may be the first.
VersionsOf(m) ==
    IF rows[m] = <<>> THEN {NULL} ELSE {rows[m][i] : i \in 1..Len(rows[m])}

\* Lines 295-374: the await of getVersion returns, the version is resolved
\* and guarded, and the migrations to run are selected.
GetVersion(p) ==
    /\ call[p].pc = "getVersion"
    /\ \E cur \in VersionsOf(call[p].moduleName) :
        LET c == [call[p] EXCEPT !.currentVersion = cur]
            len == latest[c.moduleName]
            r == Resolve(c.toUpgrade, c.arg, cur, len)
            g == Guard(c.toUpgrade, r.v, cur, len)
            pl == Plan(c.toUpgrade, r.v, cur, len)
        IN  call' = [call EXCEPT ![p] =
                IF r.o # "" THEN End(c, r.o)
                ELSE IF g # "" THEN End([c EXCEPT !.version = r.v], g)
                ELSE [c EXCEPT !.version = r.v, !.plan = pl,
                               !.toInsert = StrictEq(cur, NULL),
                               !.pc = IF pl = <<>> THEN "update" ELSE "run"]]
    /\ UNCHANGED <<latest, rows, fwd, bwd, last, ncalls>>

\* RunMigration without the return of lines 376-377: a failed migration is
\* followed by the update of the version.
RunMigrationIgnoresFailure(p, ok) ==
    /\ call[p].pc = "run"
    /\ LET c == call[p]
           m == c.moduleName
           unit == c.plan[Len(c.ran) + 1]
       IN  IF unit = 0
           THEN /\ call' = [call EXCEPT ![p] = End(c, "CaughtError")]
                /\ UNCHANGED <<fwd, bwd>>
           ELSE IF ~ok
           THEN /\ call' = [call EXCEPT ![p] =
                        [c EXCEPT !.failedAt = unit, !.pc = "update"]]
                /\ UNCHANGED <<fwd, bwd>>
           ELSE /\ call' = [call EXCEPT ![p] =
                        [c EXCEPT !.ran = Append(c.ran, unit),
                                  !.pc = IF Len(c.ran) + 1 = Len(c.plan)
                                         THEN "update" ELSE "run"]]
                /\ fwd' = IF c.toUpgrade
                          THEN [fwd EXCEPT ![m] = fwd[m] + 1] ELSE fwd
                /\ bwd' = IF c.toUpgrade
                          THEN bwd ELSE [bwd EXCEPT ![m] = bwd[m] + 1]
    /\ UNCHANGED <<latest, rows, last, ncalls>>

\* RunMigration with a migration that failed run again.
RunMigrationRetries(p, ok) ==
    /\ call[p].pc = "run"
    /\ LET c == call[p]
           m == c.moduleName
           unit == c.plan[Len(c.ran) + 1]
       IN  IF unit = 0
           THEN /\ call' = [call EXCEPT ![p] = End(c, "CaughtError")]
                /\ UNCHANGED <<fwd, bwd>>
           ELSE IF ~ok
           THEN /\ call' = [call EXCEPT ![p] = [c EXCEPT !.failedAt = unit]]
                /\ UNCHANGED <<fwd, bwd>>
           ELSE /\ call' = [call EXCEPT ![p] =
                        [c EXCEPT !.ran = Append(c.ran, unit),
                                  !.pc = IF Len(c.ran) + 1 = Len(c.plan)
                                         THEN "update" ELSE "run"]]
                /\ fwd' = IF c.toUpgrade
                          THEN [fwd EXCEPT ![m] = fwd[m] + 1] ELSE fwd
                /\ bwd' = IF c.toUpgrade
                          THEN bwd ELSE [bwd EXCEPT ![m] = bwd[m] + 1]
    /\ UNCHANGED <<latest, rows, last, ncalls>>

\* _runMigration(migration, toUpgrade), lines 426-441, for the next
\* migration of the plan, and what its caller does with the result (lines
\* 376-377, 405-413).  ok is whether up()/down() resolves.  An undefined
\* migration throws a TypeError in the try block and again in the catch
\* block; the catch of _doMigration (lines 386-389) logs it.
RunMigration(p, ok) ==
    /\ call[p].pc = "run"
    /\ LET c == call[p]
           m == c.moduleName
           unit == c.plan[Len(c.ran) + 1]
       IN  IF unit = 0
           THEN /\ call' = [call EXCEPT ![p] = End(c, "CaughtError")]
                /\ UNCHANGED <<fwd, bwd>>
           ELSE IF ~ok
           THEN /\ call' = [call EXCEPT ![p] =
                        End([c EXCEPT !.failedAt = unit], "UnitFailure")]
                /\ UNCHANGED <<fwd, bwd>>
           ELSE /\ call' = [call EXCEPT ![p] =
                        [c EXCEPT !.ran = Append(c.ran, unit),
                                  !.pc = IF Len(c.ran) + 1 = Len(c.plan)
                                         THEN "update" ELSE "run"]]
                /\ fwd' = IF c.toUpgrade
                          THEN [fwd EXCEPT ![m] = fwd[m] + 1] ELSE fwd
                /\ bwd' = IF c.toUpgrade
                          THEN bwd ELSE [bwd EXCEPT ![m] = bwd[m] + 1]
    /\ UNCHANGED <<latest, rows, last, ncalls>>

RunMigrationOk(p) == RunMigration(p, TRUE)
RunMigrationFails(p) == RunMigration(p, FALSE)

\* UpdateMigrationVersion whose update has no where clause.
UpdateEveryModule(p) ==
    /\ call[p].pc = "update"
    /\ LET c == call[p]
           m == c.moduleName
       IN  /\ rows' = IF c.toInsert
                      THEN [rows EXCEPT ![m] = Append(rows[m], c.version)]
                      ELSE [b \in Modules |->
                              [i \in 1..Len(rows[b]) |-> c.version]]
           /\ call' = [call EXCEPT ![p] =
                    End([c EXCEPT !.write = "done"], "Success")]
    /\ UNCHANGED <<latest, fwd, bwd, last, ncalls>>

\* UpdateMigrationVersion that looks for the record of the module at the
\* time of the write.
UpdateUpserts(p) ==
    /\ call[p].pc = "update"
    /\ LET c == call[p]
           m == c.moduleName
       IN  /\ rows' = [rows EXCEPT ![m] =
                    IF rows[m] = <<>> THEN <<c.version>>
                    ELSE [i \in 1..Len(rows[m]) |-> c.version]]
           /\ call' = [call EXCEPT ![p] =
                    End([c EXCEPT !.write = "done"], "Success")]
    /\ UNCHANGED <<latest, fwd, bwd, last, ncalls>>

\* UpdateMigrationVersion with an insert whatever toInsert is.
UpdateAlwaysInserts(p) ==
    /\ call[p].pc = "update"
    /\ LET c == call[p]
           m == c.moduleName
       IN  /\ rows' = [rows EXCEPT ![m] = Append(rows[m], c.version)]
           /\ call' = [call EXCEPT ![p] =
                    End([c EXCEPT !.write = "done"], "Success")]
    /\ UNCHANGED <<latest, fwd, bwd, last, ncalls>>

\* _updateMigrationVersion(moduleName, version, toInsert), lines 454-465,
\* and the end of the try block (lines 380-384).
UpdateMigrationVersion(p) ==
    /\ call[p].pc = "update"
    /\ LET c == call[p]
           m == c.moduleName
       IN  /\ rows' = [rows EXCEPT ![m] =
                    IF c.toInsert THEN Append(rows[m], c.version)
                    ELSE [i \in 1..Len(rows[m]) |-> c.version]]
           /\ call' = [call EXCEPT ![p] =
                    End([c EXCEPT !.write = "done"], "Success")]
    /\ UNCHANGED <<latest, fwd, bwd, last, ncalls>>

\* Lines 295-374 when getVersion returns undefined: its query threw and
\* line 214 returned nothing.  _doMigration goes on with that value.
GetVersionFails(p) ==
    /\ call[p].pc = "getVersion"
    /\ LET c == [call[p] EXCEPT !.currentVersion = UNDEF]
           len == latest[c.moduleName]
           r == Resolve(c.toUpgrade, c.arg, UNDEF, len)
           g == Guard(c.toUpgrade, r.v, UNDEF, len)
           pl == Plan(c.toUpgrade, r.v, UNDEF, len)
       IN  call' = [call EXCEPT ![p] =
                IF r.o # "" THEN End(c, r.o)
                ELSE IF g # "" THEN End([c EXCEPT !.version = r.v], g)
                ELSE [c EXCEPT !.version = r.v, !.plan = pl,
                               !.toInsert = StrictEq(UNDEF, NULL),
                               !.pc = IF pl = <<>> THEN "update" ELSE "run"]]
    /\ UNCHANGED <<latest, rows, fwd, bwd, last, ncalls>>

\* UpdateFails with the message of line 383 logged after a failed write.
UpdateFailsLogsSuccess(p) ==
    /\ call[p].pc = "update"
    /\ call' = [call EXCEPT ![p] =
            End([call[p] EXCEPT !.write = "failed"], "Success")]
    /\ UNCHANGED <<latest, rows, fwd, bwd, last, ncalls>>

\* _updateMigrationVersion when its query throws: the await of line 380
\* throws, the catch of lines 386-389 logs the error, the call returns.
UpdateFails(p) ==
    /\ call[p].pc = "update"
    /\ call' = [call EXCEPT ![p] =
            End([call[p] EXCEPT !.write = "failed"], "CaughtError")]
    /\ UNCHANGED <<latest, rows, fwd, bwd, last, ncalls>>

\* The version arguments with a number that is not an integer (1.5).
AnyVersionArgs == VersionArgs \cup {Half(1)}

MigrateAny(p) ==
    \E m \in ModuleArgs, v \in AnyVersionArgs :
        DoMigration(p, m, TRUE, v)

RollbackAny(p) ==
    \E m \in ModuleArgs, v \in AnyVersionArgs :
        DoMigration(p, m, FALSE, v)

Next ==
    \E p \in Procs :
        \/ Migrate(p)
        \/ Rollback(p)
        \/ GetVersion(p)
        \/ RunMigrationOk(p)
        \/ RunMigrationFails(p)
        \/ UpdateMigrationVersion(p)

Spec == Init /\ [][Next]_vars

\* The steps of the invocation of p after the call: each is the return of
\* an await (lines 295, 361, 373, 407, 380).
Returns(p) ==
    \/ GetVersion(p)
    \/ RunMigrationOk(p)
    \/ RunMigrationFails(p)
    \/ UpdateMigrationVersion(p)

\* Every awaited unit action and query on the table returns.
SpecFair == Spec /\ \A p \in Procs : WF_vars(Returns(p))

\* Two callers of the same controller, one call each: nothing in lines
\* 276-390 keeps the invocation of one from starting or going on between
\* two awaits of the other.
Callers == {1, 2}

InitConc == InitOf({"billing"}, Callers)

MigrateOnce(p) == call[p].pc = "idle" /\ Migrate(p)

RollbackOnce(p) == call[p].pc = "idle" /\ Rollback(p)

NextConc ==
    \E p \in Callers :
        \/ MigrateOnce(p)
        \/ RollbackOnce(p)
        \/ GetVersion(p)
        \/ RunMigrationOk(p)
        \/ RunMigrationFails(p)
        \/ UpdateMigrationVersion(p)

SpecConc == InitConc /\ [][NextConc]_vars

\* Two modules under the modules path, each with its own directory of
\* migrations (lines 230-232) and its own records in the table.  The
\* table outlives the controller: a module has no record, or the record
\* that migrate(module, v) left after running its migrations 1..v.
InitIso ==
    /\ latest \in [{"billing", "users"} -> 0..MaxLatest]
    /\ fwd \in [{"billing", "users"} -> 0..MaxLatest]
    /\ \A m \in {"billing", "users"} : fwd[m] <= latest[m]
    /\ rows = [m \in {"billing", "users"} |->
                 IF fwd[m] = 0 THEN <<>> ELSE <<Num(fwd[m])>>]
    /\ bwd = [m \in {"billing", "users"} |-> 0]
    /\ call = [p \in Procs |-> Idle]
    /\ last = NoCall
    /\ ncalls = 0

\* One call on one of the modules.
NextIso ==
    \E p \in Procs :
        \/ MigrateOnce(p)
        \/ RollbackOnce(p)
        \/ GetVersion(p)
        \/ RunMigrationOk(p)
        \/ RunMigrationFails(p)
        \/ UpdateMigrationVersion(p)

SpecIso == InitIso /\ [][NextIso]_vars

\* The calls with any version argument.
NextAnyArgs ==
    \E p \in Procs :
        \/ MigrateAny(p)
        \/ RollbackAny(p)
        \/ GetVersion(p)
        \/ RunMigrationOk(p)
        \/ RunMigrationFails(p)
        \/ UpdateMigrationVersion(p)

SpecAnyArgs == Init /\ [][NextAnyArgs]_vars

\* The calls with queries on the migrations table that may throw.
NextFaults ==
    \E p \in Procs :
        \/ Migrate(p)
        \/ Rollback(p)
        \/ GetVersion(p)
        \/ GetVersionFails(p)
        \/ RunMigrationOk(p)
        \/ RunMigrationFails(p)
        \/ UpdateMigrationVersion(p)
        \/ UpdateFails(p)

SpecFaults == Init /\ [][NextFaults]_vars

TypeOK ==
    /\ \A m \in Modules : latest[m] \in 0..MaxLatest
    /\ \A p \in DOMAIN call : call[p].pc \in {"idle", "getVersion", "run", "update", "done"}

(* ------------------------------ claims --------------------------------- *)

\* The stored version of a module, an absent record counted as 0.
Stored(r) == IF r = <<>> THEN 0 ELSE r[1].n

\* The invocation has ended, after it loaded the migrations and read the
\* current version.
Ended(c) == c.pc = "done" /\ c.currentVersion # UNDEF

\* <<a, a+1, ..., b>> and <<a, a-1, ..., b>>
Up(a, b) == [i \in 1..(b - a + 1) |-> a + i - 1]
Down(a, b) == [i \in 1..(a - b + 1) |-> a + 1 - i]

\* The unit actions of the invocation left the counts of the module as
\* they were.
NoUnitRun(c) ==
    /\ c.ran = <<>>
    /\ c.failedAt = 0
    /\ \A m \in Modules \cap {c.moduleName} :
        fwd[m] = c.preFwd /\ bwd[m] = c.preBwd

\* C1: the stored version of a module is absent or an integer in
\* 0..latest, after any sequence of migrate and rollback calls.
C1_VersionInRange ==
    \A m \in Modules : \A i \in 1..Len(rows[m]) :
        /\ rows[m][i].t = "num"
        /\ rows[m][i].n >= 0
        /\ rows[m][i].n <= latest[m]

\* A rollback below the latest version and a migrate to the latest version
\* have both written the record.
C1_Witness ==
    \E p \in Procs :
        LET c == call[p] IN
        /\ c.pc = "done" /\ c.outcome = "Success" /\ c.toUpgrade
        /\ last.outcome = "Success" /\ ~last.toUpgrade
        /\ rows[c.moduleName] = <<Num(latest[c.moduleName])>>

\* C2: when no call is in flight, the stored version of a module (absent
\* counted as 0) is the number of forward actions that completed minus the
\* number of backward actions that completed.  Stated for the calls in
\* which no unit action fails: such a call that starts with the two equal
\* ends with the two equal.
C2_VersionIsNetCount ==
    \A p \in Procs :
        LET c == call[p] IN
        (/\ c.pc = "done"
         /\ c.moduleName \in Modules
         /\ c.failedAt = 0
         /\ Stored(c.pre) = c.preFwd - c.preBwd)
        => Stored(rows[c.moduleName])
             = fwd[c.moduleName] - bwd[c.moduleName]

\* C3: migrate(module) without a version, on a module with no record and
\* at least one migration, runs the forward action of unit 1 and of no
\* other unit and then inserts the record with version 1.
C3_FirstMigrate ==
    \A p \in Procs :
        LET c == call[p] IN
        (/\ Ended(c)
         /\ c.toUpgrade /\ c.arg = UNDEF
         /\ c.pre = <<>>
         /\ latest[c.moduleName] >= 1)
        => \/ /\ c.outcome = "Success"
              /\ c.ran = <<1>>
              /\ rows[c.moduleName] = <<Num(1)>>
           \/ /\ c.outcome = "UnitFailure"
              /\ c.ran = <<>> /\ c.failedAt = 1
              /\ rows[c.moduleName] = <<>>

\* C4: for a module with no record getVersion returns null, and
\* rollback(module) without a version returns without raising an error,
\* runs no unit action and creates no record.
C4_RollbackNeverMigrated ==
    \A p \in Procs :
        LET c == call[p] IN
        (/\ Ended(c)
         /\ ~c.toUpgrade /\ c.arg = UNDEF
         /\ c.pre = <<>>)
        => /\ c.currentVersion = NULL
           /\ c.outcome \notin Thrown
           /\ NoUnitRun(c)
           /\ rows[c.moduleName] = <<>>

\* The target of a migrate call with an explicit version or 'latest'.
Target(c) == IF c.arg = LATEST THEN latest[c.moduleName] ELSE c.arg.n

\* C5: migrate from the current version c (absent counted as 0) to a
\* target t with c < t <= latest, given as an integer or as 'latest', runs
\* the forward actions of the units c+1, ..., t once each in ascending
\* order and then stores t, when every unit action succeeds.
C5_MigrateRange ==
    \A p \in Procs :
        LET c == call[p]
            m == c.moduleName
        IN
        (/\ Ended(c)
         /\ c.toUpgrade /\ c.arg.t \in {"num", "latest"}
         /\ Stored(c.pre) < Target(c) /\ Target(c) <= latest[m]
         /\ c.failedAt = 0)
        => /\ c.outcome = "Success"
           /\ c.ran = Up(Stored(c.pre) + 1, Target(c))
           /\ fwd[m] = c.preFwd + Len(c.ran) /\ bwd[m] = c.preBwd
           /\ rows[m] = <<Num(Target(c))>>

\* migrate(module, 'latest') from a stored version 1 ran the units 2 and 3.
C5_Witness ==
    \E p \in Procs :
        LET c == call[p] IN
        /\ Ended(c) /\ c.toUpgrade /\ c.arg = LATEST
        /\ c.pre = <<Num(1)>> /\ c.ran = <<2, 3>>
        /\ rows[c.moduleName] = <<Num(3)>>

\* The target of a rollback call on a module with a record.
DownTarget(c) == IF c.arg = UNDEF THEN Stored(c.pre) - 1 ELSE c.arg.n

\* C6: rollback from a stored version c > 0 to a target t with 0 <= t < c
\* (t = c-1 without a version) runs the backward actions of the units
\* c, c-1, ..., t+1 once each in descending order and then stores t, when
\* every unit action succeeds.
C6_RollbackRange ==
    \A p \in Procs :
        LET c == call[p]
            m == c.moduleName
        IN
        (/\ Ended(c)
         /\ ~c.toUpgrade /\ c.arg.t \in {"num", "undefined"}
         /\ c.pre # <<>> /\ Stored(c.pre) > 0
         /\ 0 <= DownTarget(c) /\ DownTarget(c) < Stored(c.pre)
         /\ c.failedAt = 0)
        => /\ c.outcome = "Success"
           /\ c.ran = Down(Stored(c.pre), DownTarget(c) + 1)
           /\ bwd[m] = c.preBwd + Len(c.ran) /\ fwd[m] = c.preFwd
           /\ rows[m] = <<Num(DownTarget(c))>>

\* rollback(module, 1) from the stored version 3 ran the units 3 and 2.
C6_Witness ==
    \E p \in Procs :
        LET c == call[p] IN
        /\ Ended(c) /\ ~c.toUpgrade /\ c.arg = Num(1)
        /\ c.pre = <<Num(3)>> /\ c.ran = <<3, 2>>
        /\ rows[c.moduleName] = <<Num(1)>>

\* C7: migrate(module, v) with v below the current version and
\* rollback(module, v) with v above it (absent counted as 0) fail with
\* InvalidDirection, ahead of the other guards on the version (also when
\* v > latest or current = latest), run no unit action and leave the
\* record unchanged.  v is a valid (non-negative) version.
C7_InvalidDirection ==
    \A p \in Procs :
        LET c == call[p]
            m == c.moduleName
        IN
        (/\ Ended(c)
         /\ c.arg.t = "num" /\ c.arg.n >= 0
         /\ \/ c.toUpgrade /\ c.arg.n < Stored(c.pre)
            \/ ~c.toUpgrade /\ c.arg.n > Stored(c.pre))
        => /\ c.outcome = "InvalidDirection"
           /\ NoUnitRun(c)
           /\ rows[m] = c.pre

\* A rollback to a version above latest, on a module with a record, was
\* rejected for its direction.
C7_Witness ==
    \E p \in Procs :
        LET c == call[p] IN
        /\ Ended(c) /\ ~c.toUpgrade /\ c.pre # <<>>
        /\ c.arg.t = "num" /\ c.arg.n > latest[c.moduleName]
        /\ c.outcome = "InvalidDirection"

\* The target of a call as section 4.3 resolves it: the given integer,
\* latest for 'latest', and without a version current + 1 or current - 1,
\* with 1 for a migrate on a module with no record.
ResolvedTarget(c) ==
    IF c.arg = LATEST THEN latest[c.moduleName]
    ELSE IF c.arg.t = "num" THEN c.arg.n
    ELSE IF c.pre = <<>> THEN 1
    ELSE Stored(c.pre) + (IF c.toUpgrade THEN 1 ELSE -1)

\* The call has a resolved target that passes the two direction guards.
PassesDirection(c) ==
    /\ \/ c.arg.t = "num" /\ c.arg.n >= 0
       \/ c.arg = LATEST /\ c.toUpgrade
       \/ c.arg = UNDEF /\ (c.toUpgrade \/ c.pre # <<>>)
    /\ ~(c.toUpgrade /\ ResolvedTarget(c) < Stored(c.pre))
    /\ ~(~c.toUpgrade /\ ResolvedTarget(c) > Stored(c.pre))

\* The condition of the latest-bound guard.
AtOrAboveLatest(c) ==
    \/ ResolvedTarget(c) > latest[c.moduleName]
    \/ /\ c.toUpgrade
       /\ c.pre # <<>>
       /\ Stored(c.pre) = latest[c.moduleName]

\* C8: a call whose resolved target is greater than latest, or a migrate
\* at current = latest, is a no-op that reports "already at latest": it
\* runs no unit action and leaves the stored version unchanged.  (The
\* direction guards of C7 come first.)
C8_AlreadyLatest ==
    \A p \in Procs :
        LET c == call[p] IN
        (Ended(c) /\ PassesDirection(c) /\ AtOrAboveLatest(c))
        => /\ c.outcome = "AlreadyLatest"
           /\ NoUnitRun(c)
           /\ rows[c.moduleName] = c.pre

\* C8 apart from migrate(module) without a version on a module with no
\* record, which line 305 ends before a version is resolved.
C8_ExceptFirstMigrate ==
    \A p \in Procs :
        LET c == call[p] IN
        (/\ Ended(c) /\ PassesDirection(c) /\ AtOrAboveLatest(c)
         /\ ~(c.toUpgrade /\ c.arg = UNDEF /\ c.pre = <<>>))
        => /\ c.outcome = "AlreadyLatest"
           /\ NoUnitRun(c)
           /\ rows[c.moduleName] = c.pre

\* The call repeats the call before it: the same migrate(module, target)
\* with an integer or 'latest' as the target.
RepeatsMigrate(c) ==
    /\ c.pc = "done"
    /\ c.toUpgrade /\ last.toUpgrade
    /\ last.outcome # ""
    /\ c.moduleName = last.moduleName
    /\ c.arg = last.arg
    /\ c.arg.t \in {"num", "latest"}

\* C9 as stated: the second of two equal migrate(module, target) calls in
\* a row runs no unit action and leaves the stored version as the first
\* call left it, whatever the first call did.
C9_SecondMigrateNoOp ==
    \A p \in Procs :
        LET c == call[p] IN
        RepeatsMigrate(c)
        => /\ NoUnitRun(c)
           /\ \A m \in Modules \cap {c.moduleName} : rows[m] = c.pre

\* C9 amended: the second of two equal migrate(module, target) calls in a
\* row runs no unit action and leaves the stored version as the first call
\* left it, when the first call did not end in a failed unit action.
C9_SecondMigrateNoOpAfterNoFailure ==
    \A p \in Procs :
        LET c == call[p] IN
        (RepeatsMigrate(c) /\ last.outcome # "UnitFailure")
        => /\ NoUnitRun(c)
           /\ \A m \in Modules \cap {c.moduleName} : rows[m] = c.pre

\* A migrate that reached its target was repeated and found the module at
\* the given version.
C9_Witness ==
    \E p \in Procs :
        LET c == call[p] IN
        /\ RepeatsMigrate(c)
        /\ last.outcome = "Success"
        /\ c.outcome = "AlreadyAtVersion"
        /\ c.arg = Num(2)

\* C10: when the action of a unit fails, the run stops at that unit: the
\* call ends, no later unit of the plan is run, the stored version keeps
\* the value it had before the call, and the units that succeeded in this
\* call stay applied.
C10_StopAtFailedUnit ==
    \A p \in Procs :
        LET c == call[p]
            m == c.moduleName
        IN
        c.failedAt # 0
        => /\ c.pc = "done" /\ c.outcome = "UnitFailure"
           /\ Len(c.ran) < Len(c.plan)
           /\ c.ran = SubSeq(c.plan, 1, Len(c.ran))
           /\ c.failedAt = c.plan[Len(c.ran) + 1]
           /\ rows[m] = c.pre
           /\ fwd[m] = c.preFwd + (IF c.toUpgrade THEN Len(c.ran) ELSE 0)
           /\ bwd[m] = c.preBwd + (IF c.toUpgrade THEN 0 ELSE Len(c.ran))

\* The second of three units failed after the first succeeded.
C10_Witness ==
    \E p \in Procs :
        LET c == call[p] IN
        /\ c.pc = "done" /\ c.outcome = "UnitFailure"
        /\ Len(c.plan) >= 3 /\ c.ran # <<>> /\ c.failedAt = c.plan[2]

\* C11: a rollback on a module whose current version is 0 or absent, with
\* a requested version that no earlier guard rejects (rollback(module, 0),
\* and rollback(module) on a stored 0), is a no-op that reports "not yet
\* migrated": no backward action is run and no record is inserted or
\* changed.
C11_RollbackNotYetMigrated ==
    \A p \in DOMAIN call :
        LET c == call[p] IN
        (/\ Ended(c)
         /\ ~c.toUpgrade
         /\ Stored(c.pre) = 0
         /\ PassesDirection(c) /\ ~AtOrAboveLatest(c))
        => /\ c.outcome = "NotYetMigrated"
           /\ NoUnitRun(c)
           /\ rows[c.moduleName] = c.pre

\* The call got to the execution of its migrations (line 353).
Executes(c) ==
    \/ c.pc \in {"run", "update"}
    \/ c.pc = "done" /\ c.outcome \in {"Success", "UnitFailure", "CaughtError"}

\* The call takes the branch for one migration (line 360).
Shortcut(c) == AbsLeOne(JsSub(c.version, OrZero(c.currentVersion)))

\* C12: whenever the branch for one migration is taken, it runs the
\* migrations that slicing the sequence and iterating over it runs, in the
\* same order, and writes the version as that path does.
C12_ShortcutIsSlicePath ==
    \A p \in DOMAIN call :
        LET c == call[p] IN
        (Executes(c) /\ Shortcut(c))
        => /\ c.plan = SlicePlan(c.toUpgrade, c.version, c.currentVersion,
                                 latest[c.moduleName])
           /\ (c.pc = "done" /\ c.failedAt = 0) => c.outcome = "Success"

\* C13: a run that succeeds writes the version by an insert when the
\* module had no record before the call and by an update otherwise; the
\* table holds at most one record per module and a record is never removed.
C13_InsertOrUpdate ==
    \A m \in Modules :
        /\ Len(rows[m]) <= 1
        /\ \A p \in DOMAIN call :
            LET c == call[p] IN
            c.moduleName = m
            => /\ Len(rows[m]) >= Len(c.pre)
               /\ c.write = "done"
                  => /\ c.toInsert <=> c.pre = <<>>
                     /\ Len(rows[m]) = IF c.pre = <<>> THEN 1 ELSE Len(c.pre)
                     /\ \A i \in 1..Len(rows[m]) : rows[m][i] = c.version

\* A rollback to 0 updated the record that an earlier migrate inserted.
C13_Witness ==
    \E p \in DOMAIN call :
        LET c == call[p] IN
        /\ c.write = "done" /\ ~c.toUpgrade /\ ~c.toInsert
        /\ c.pre = <<Num(2)>>
        /\ rows[c.moduleName] = <<Num(0)>>

\* The call is one that validation or the loader rejects: an empty module
\* name, a version that is not a non-negative integer, 'latest' on a
\* rollback, or a module whose migrations cannot be loaded.
Rejected(c) ==
    \/ c.moduleName = ""
    \/ c.moduleName = Unreadable
    \/ c.arg.t \in {"str", "half"}
    \/ c.arg.t = "num" /\ c.arg.n < 0
    \/ c.arg = LATEST /\ ~c.toUpgrade

\* The table is as it was when the call began.
TableUnchanged(c) ==
    /\ c.write = ""
    /\ \A m \in Modules \cap {c.moduleName} : rows[m] = c.pre

\* C14: a call that validation or the loader rejects aborts with no side
\* effects: it runs no unit action and leaves the table unchanged.
C14_RejectedNoSideEffects ==
    \A p \in DOMAIN call :
        LET c == call[p] IN
        (c.pc # "idle" /\ Rejected(c))
        => /\ NoUnitRun(c)
           /\ TableUnchanged(c)

\* C16: when the read of the current version fails, the call halts: no
\* unit action is run and no version is written, whatever the requested
\* version.
C16_ReadFailureHalts ==
    \A p \in DOMAIN call :
        LET c == call[p] IN
        c.currentVersion = UNDEF
        => /\ NoUnitRun(c)
           /\ TableUnchanged(c)

\* The call ended by raising a MigrationError to its caller.
Raised(c) == c.pc = "done" /\ c.outcome \in Thrown

\* The call ended in a failure that the controller catches: the migrations
\* could not be loaded, a unit action failed, or the write of the version
\* failed.
CaughtFailure(c) ==
    /\ c.pc = "done"
    /\ \/ c.moduleName = Unreadable /\ ~InvalidVersion(c.arg)
       \/ c.failedAt # 0
       \/ c.write = "failed"

\* The call is invalid in its input, its target or its direction (the
\* direction is judged against the version that getVersion returned).
InvalidCall(c) ==
    \/ c.moduleName = ""
    \/ InvalidVersion(c.arg)
    \/ c.moduleName \in Modules /\ c.arg = LATEST /\ ~c.toUpgrade
    \/ /\ c.moduleName \in Modules
       /\ c.arg.t = "num"
       /\ c.currentVersion.t \in {"num", "null"}
       /\ \/ c.toUpgrade /\ c.arg.n < ToNumber(c.currentVersion).n
          \/ ~c.toUpgrade /\ c.arg.n > ToNumber(c.currentVersion).n

\* C15 as stated: no invocation ends by raising an error to the caller.
C15_NothingRaised ==
    \A p \in DOMAIN call : ~Raised(call[p])

\* C15 amended: a load failure, a unit failure and a failure of the write
\* of the version are captured and the call returns; invalid input, an
\* invalid target and an invalid direction end the call with a
\* MigrationError raised to the caller.
C15_OnlyInvalidCallsRaise ==
    \A p \in DOMAIN call :
        LET c == call[p] IN
        /\ CaughtFailure(c) => ~Raised(c)
        /\ (c.pc = "done" /\ InvalidCall(c)) => Raised(c)

\* A failed write of the version was caught after the units had run.
C15_Witness ==
    \E p \in DOMAIN call :
        LET c == call[p] IN
        /\ c.pc = "done" /\ c.write = "failed" /\ c.ran # <<>>
        /\ ~Raised(c)
        /\ Raised([pc |-> "done", outcome |-> last.outcome])

\* C17: when every selected unit action succeeds and the write of the
\* version fails, the call ends with an outcome other than that of a
\* successful run (the error is logged, the message of line 383 is not):
\* the effects of the units stay, the stored version keeps its value.
C17_PersistFailure ==
    \A p \in DOMAIN call :
        LET c == call[p]
            m == c.moduleName
        IN
        c.write = "failed"
        => /\ c.pc = "done"
           /\ c.outcome = "CaughtError"
           /\ c.ran = c.plan /\ c.failedAt = 0
           /\ rows[m] = c.pre
           /\ fwd[m] = c.preFwd + (IF c.toUpgrade THEN Len(c.ran) ELSE 0)
           /\ bwd[m] = c.preBwd + (IF c.toUpgrade THEN 0 ELSE Len(c.ran))

\* The write failed after the forward actions of two units.
C17_Witness ==
    \E p \in DOMAIN call :
        LET c == call[p] IN
        /\ c.write = "failed" /\ c.toUpgrade
        /\ c.ran = <<2, 3>> /\ c.pre = <<Num(1)>>
        /\ rows[c.moduleName] = <<Num(1)>>

\* The invocation is between its call and its end.
InFlight(c) == c.pc \in {"getVersion", "run", "update"}

\* The unit actions of the invocation so far are the first ones of its
\* plan, in the order of the plan and each once; after a unit that failed
\* the invocation has ended; the version was written only after all of
\* them.
InPlanOrder(c) ==
    /\ Len(c.ran) <= Len(c.plan)
    /\ c.ran = SubSeq(c.plan, 1, Len(c.ran))
    /\ \A i, j \in 1..Len(c.ran) : c.ran[i] = c.ran[j] => i = j
    /\ c.failedAt # 0 => c.pc = "done" /\ c.write = ""
    /\ c.write = "done" => c.pc = "done" /\ c.ran = c.plan

\* A step that changes the table is the write of an invocation whose unit
\* actions have all completed, and it ends the invocation.
WriteIsLast ==
    rows' # rows
    => \E p \in DOMAIN call :
        /\ call[p].pc = "update" /\ call[p].write = ""
        /\ call[p].ran = call[p].plan
        /\ call'[p].pc = "done"

\* C18: an invocation whose unit actions and queries all return
\* terminates; it starts the action of each selected unit at most once, in
\* order and only after the unit before it completed, and it writes the
\* version at most once, after the last selected unit completed.
C18_OneInvocation ==
    /\ \A p \in Procs : InFlight(call[p]) ~> call[p].pc = "done"
    /\ [](\A p \in Procs : InPlanOrder(call[p]))
    /\ [][WriteIsLast]_vars

\* An invocation ran three units in order and then wrote the version.
C18_Witness ==
    \E p \in DOMAIN call :
        LET c == call[p] IN
        /\ c.pc = "done" /\ c.write = "done"
        /\ c.ran = <<3, 2, 1>>
        /\ rows[c.moduleName] = <<Num(0)>>

\* The invocation read that the module has no record and wrote its version.
InsertedAfterNull(c) ==
    /\ c.pc = "done" /\ c.write = "done"
    /\ StrictEq(c.currentVersion, NULL)

\* C19: two invocations on the same module that both read that it has no
\* record both insert, so the module has two records; the migrations that
\* both ran after the same read were run twice.
C19_BothReadSameVersion ==
    \A p, q \in DOMAIN call :
        (/\ p # q
         /\ call[p].moduleName = call[q].moduleName
         /\ InsertedAfterNull(call[p])
         /\ InsertedAfterNull(call[q]))
        => LET m == call[p].moduleName IN
           /\ Len(rows[m]) >= 2
           /\ (call[p].toUpgrade /\ call[q].toUpgrade)
              => fwd[m] >= Len(call[p].ran) + Len(call[q].ran)

\* Two overlapping migrate calls both read no record, both ran migration 1
\* and both inserted version 1.
C19_Witness ==
    \E p, q \in DOMAIN call :
        /\ p # q
        /\ call[p].moduleName = call[q].moduleName
        /\ InsertedAfterNull(call[p]) /\ InsertedAfterNull(call[q])
        /\ call[p].ran = <<1>> /\ call[q].ran = <<1>>
        /\ call[p].toUpgrade /\ call[q].toUpgrade
        /\ rows[call[p].moduleName] = <<Num(1), Num(1)>>
        /\ fwd[call[p].moduleName] = 2 /\ bwd[call[p].moduleName] = 0

\* The records of module b and the counts of its migrations run are the
\* same after the step.
Untouched(b) ==
    /\ rows'[b] = rows[b]
    /\ fwd'[b] = fwd[b]
    /\ bwd'[b] = bwd[b]
    /\ latest'[b] = latest[b]

\* C20: a step of a migrate or rollback call on one module, whatever its
\* arguments and outcome, runs no migration of another module and leaves
\* the records of every other module as they were.
C20_ModuleIsolation ==
    [][\A p \in DOMAIN call :
        call'[p] # call[p]
        => \A b \in Modules \ {call'[p].moduleName} : Untouched(b)]_vars

\* A call on one module ran its migrations and wrote its version while the
\* other module had a record of another version.
C20_Witness ==
    \E p \in DOMAIN call :
        LET c == call[p] IN
        /\ c.pc = "done" /\ c.write = "done" /\ c.ran # <<>>
        /\ ~c.toInsert
        /\ \E b \in Modules \ {c.moduleName} :
            /\ Len(rows[b]) = 1
            /\ rows[b] # rows[c.moduleName]
            /\ fwd[b] > 0

====
